---- MODULE Spec2Model ----
(***************************************************************************)
(* Session replay and order execution of the BKST paper-trading journal:   *)
(* the TradingChart component (cursor over a bar sequence, simulated       *)
(* BUY/SELL against the bar at the cursor, cash balance and position, and  *)
(* the debounced save / reload of the session state).                      *)
(*                                                                         *)
(* JavaScript numbers are modelled as exact rationals [n, d] in lowest     *)
(* terms (d > 0); IEEE-754 rounding is not modelled.  A bar is modelled by *)
(* its close, the only field the engine reads.  Every handler is one       *)
(* action that includes the re-render and the effects it triggers.         *)
(***************************************************************************)
EXTENDS Integers, Sequences, FiniteSets, TLC

(***************************************************************************)
(* Bounds and program constants                                            *)
(***************************************************************************)
\* Accepted trades per session explored by the model.
MaxTrades == 3

\* useState(20) of currentCandleIndex; the step-back button is disabled at <= 20.
WarmUp == 20

\* null / undefined; a present optional value x is Some(x).
Null == << >>
Some(x) == <<x>>

(***************************************************************************)
(* Exact rational arithmetic (JavaScript number arithmetic)                *)
(***************************************************************************)
Abs(x) == IF x < 0 THEN -x ELSE x

RECURSIVE GCD(_, _)
GCD(a, b) == IF b = 0 THEN a ELSE GCD(b, a % b)

Rat(n, d) ==
    LET s == IF d < 0 THEN -1 ELSE 1
        g == GCD(Abs(n), Abs(d))
    IN  [n |-> (s * n) \div g, d |-> (s * d) \div g]

Num(i) == [n |-> i, d |-> 1]

Add(a, b) == Rat(a.n * b.d + b.n * a.d, a.d * b.d)
Sub(a, b) == Rat(a.n * b.d - b.n * a.d, a.d * b.d)
Mul(a, b) == Rat(a.n * b.n, a.d * b.d)
Div(a, b) == Rat(a.n * b.d, a.d * b.n)
Lt(a, b)  == a.n * b.d < b.n * a.d
Le(a, b)  == a.n * b.d <= b.n * a.d
Gt(a, b)  == Lt(b, a)
Zero      == Num(0)

(***************************************************************************)
(* Inputs: bar sequences, starting capitals, quantities, timeframes        *)
(***************************************************************************)
\* Closes of a 23-bar sequence: flat warm-up, then 100, 110, 120.
FeedTrend ==
    [i \in 1..23 |-> Num(IF i <= 21 THEN 100 ELSE IF i = 22 THEN 110 ELSE 120)]

\* Closes of a 22-bar sequence: flat at 100, the last bar at 40.
FeedCrash == [i \in 1..22 |-> Num(IF i <= 21 THEN 100 ELSE 40)]

\* Closes of a 50-bar sequence at a constant 100.
FeedFlat == [i \in 1..50 |-> Num(100)]

\* A sequence shorter than the warm-up offset, and the empty answer.
FeedShort == [i \in 1..5 |-> Num(100)]
FeedEmpty == << >>

Sessions ==
    { [feed |-> FeedTrend, capital |-> 10000],
      [feed |-> FeedCrash, capital |-> 500],
      [feed |-> FeedFlat,  capital |-> 500],
      [feed |-> FeedShort, capital |-> 500],
      [feed |-> FeedEmpty, capital |-> 500] }

\* Values typed into the quantity field.
Quantities == {0, 5, 10}
Timeframes == {"15min", "1day"}

VARIABLES
    server,              \* the session record the backend holds
    feed,                \* the bars the historical-data endpoint returns
    mounted,             \* the TradingChart component is mounted
    session,             \* useState<Session | null>
    loading,             \* useState(true)
    allCandles,          \* useState<CandlestickData[]>([])
    currentCandleIndex,  \* useState(20)
    currentPrice,        \* useState<number>(0)
    isPlaying,           \* useState(false)
    selectedTimeframe,   \* useState<TimeFrame>('15min')
    position,            \* useState<Position>
    trades,              \* useState<Trade[]>([])
    balance,             \* useState<number>(0)
    savePending,         \* the debounce timer of debouncedSave is armed
    saveArgs,            \* the arguments of the last debouncedSave call, until invoked
    last                 \* outcome of the last command (history)

vars == <<server, feed, mounted, session, loading, allCandles, currentCandleIndex,
          currentPrice, isPlaying, selectedTimeframe, position, trades,
          balance, savePending, saveArgs, last>>


(***************************************************************************)
(* Serialisation: JSON.stringify / JSON.parse / parseFloat                 *)
(***************************************************************************)
\* A number literal as text: numerator and denominator of the value.
NumberToText(r) == <<r.n, r.d>>
parseFloat(t) == Rat(t[1], t[2])

\* JSON.stringify of one Trade; an undefined profit is dropped.
TradeToJSON(t) ==
    <<t.id, t.type, NumberToText(t.price), NumberToText(Num(t.quantity))>>
        \o (IF t.profit = Null THEN << >> ELSE <<NumberToText(t.profit[1])>>)

JSONParseTrade(j) ==
    [id |-> j[1], type |-> j[2], price |-> parseFloat(j[3]),
     quantity |-> parseFloat(j[4]).n,
     profit |-> IF Len(j) >= 5 THEN Some(parseFloat(j[5])) ELSE Null]

TradesToJSON(ts) == [i \in 1..Len(ts) |-> TradeToJSON(ts[i])]
JSONParseTrades(js) == [i \in 1..Len(js) |-> JSONParseTrade(js[i])]

(***************************************************************************)
(* The backend's session record                                            *)
(***************************************************************************)
\* The record of a newly created session.
FreshSession(capital) ==
    [starting_capital     |-> NumberToText(Num(capital)),
     current_candle_index |-> WarmUp,
     current_balance      |-> Null,
     position_quantity    |-> NumberToText(Zero),
     position_avg_price   |-> NumberToText(Zero),
     trades_data          |-> Null,
     timeframe            |-> "15min"]

\* PUT /sessions/{id}/state: the partial update of the stored record.
StoreState(rec, body) ==
    [rec EXCEPT !.current_candle_index = body.current_candle_index,
                !.current_balance      = body.current_balance,
                !.position_quantity    = body.position_quantity,
                !.position_avg_price   = body.position_avg_price,
                !.trades_data          = body.trades_data,
                !.timeframe            = body.timeframe]

(***************************************************************************)
(* Component state, effects                                                *)
(***************************************************************************)
FlatPosition == [quantity |-> 0, averagePrice |-> Zero, unrealizedPnL |-> Zero]

\* The state values of the current render.
Cur ==
    [session |-> session, loading |-> loading, allCandles |-> allCandles,
     currentCandleIndex |-> currentCandleIndex, isPlaying |-> isPlaying,
     selectedTimeframe |-> selectedTimeframe, position |-> position,
     trades |-> trades, balance |-> balance]

\* The useState initial values.
Mounted ==
    [session |-> Null, loading |-> TRUE, allCandles |-> << >>,
     currentCandleIndex |-> WarmUp, isPlaying |-> FALSE,
     selectedTimeframe |-> "15min", position |-> FlatPosition,
     trades |-> << >>, balance |-> Zero]

\* Length of candles.slice(0, idx + 1).
SliceLen(candles, idx) ==
    LET e == idx + 1
        n == Len(candles)
    IN  IF e >= 0 THEN (IF e < n THEN e ELSE n)
        ELSE (IF n + e > 0 THEN n + e ELSE 0)

\* Mutant: the price is set from the first render only.
PriceEffectOnce(candles, idx, price) ==
    IF price = Zero /\ Len(candles) > 0 /\ SliceLen(candles, idx) > 0
    THEN candles[SliceLen(candles, idx)]
    ELSE price

\* Effect on [currentCandleIndex, allCandles]: the close of the last visible bar.
PriceEffect(candles, idx, price) ==
    IF Len(candles) > 0 /\ SliceLen(candles, idx) > 0
    THEN candles[SliceLen(candles, idx)]
    ELSE price

\* Effect on [currentPrice, position.quantity, position.averagePrice].
UnrealizedEffect(pos, price) ==
    [pos EXCEPT !.unrealizedPnL =
        IF pos.quantity # 0 /\ Gt(price, Zero)
        THEN Mul(Sub(price, pos.averagePrice), Num(pos.quantity))
        ELSE Zero]

\* The object handed to debouncedSave.
CurrentState(s) ==
    [current_candle_index |-> s.currentCandleIndex,
     current_balance      |-> s.balance,
     position_quantity    |-> s.position.quantity,
     position_avg_price   |-> s.position.averagePrice,
     trades_data          |-> s.trades,
     timeframe            |-> s.selectedTimeframe]

\* JSON.stringify(currentState), as the backend stores it.
JSONStringify(c) ==
    [current_candle_index |-> c.current_candle_index,
     current_balance      |-> NumberToText(c.current_balance),
     position_quantity    |-> NumberToText(Num(c.position_quantity)),
     position_avg_price   |-> NumberToText(c.position_avg_price),
     trades_data          |-> Some(TradesToJSON(c.trades_data)),
     timeframe            |-> c.timeframe]

\* Mutant: selectedTimeframe missing from the dependencies of the save effect.
SaveDueWithoutTimeframe(s) ==
    /\ ~s.loading
    /\ s.session # Null
    /\ <<s.currentCandleIndex, s.balance, s.position.quantity, s.position.averagePrice,
         s.trades, s.loading, s.session>>
       # <<currentCandleIndex, balance, position.quantity, position.averagePrice,
           trades, loading, session>>

\* Mutant: currentCandleIndex missing from the dependencies of the save effect.
SaveDueWithoutCursor(s) ==
    /\ ~s.loading
    /\ s.session # Null
    /\ <<s.balance, s.position.quantity, s.position.averagePrice,
         s.trades, s.selectedTimeframe, s.loading, s.session>>
       # <<balance, position.quantity, position.averagePrice,
           trades, selectedTimeframe, loading, session>>

\* Mutant: the save effect without its loading / session guard.
SaveDueUnguarded(s) ==
    <<s.currentCandleIndex, s.balance, s.position.quantity, s.position.averagePrice,
      s.trades, s.selectedTimeframe, s.loading, s.session>>
    # <<currentCandleIndex, balance, position.quantity, position.averagePrice,
        trades, selectedTimeframe, loading, session>>

\* The save effect: runs when one of its dependencies changed.
SaveDue(s) ==
    /\ ~s.loading
    /\ s.session # Null
    /\ <<s.currentCandleIndex, s.balance, s.position.quantity, s.position.averagePrice,
         s.trades, s.selectedTimeframe, s.loading, s.session>>
       # <<currentCandleIndex, balance, position.quantity, position.averagePrice,
           trades, selectedTimeframe, loading, session>>

\* setState calls of a handler followed by the re-render and its effects.
Commit(s) ==
    LET price == PriceEffect(s.allCandles, s.currentCandleIndex, currentPrice)
    IN  /\ mounted' = mounted
        /\ session' = s.session
        /\ loading' = s.loading
        /\ allCandles' = s.allCandles
        /\ currentCandleIndex' = s.currentCandleIndex
        /\ isPlaying' = s.isPlaying
        /\ selectedTimeframe' = s.selectedTimeframe
        /\ trades' = s.trades
        /\ balance' = s.balance
        /\ currentPrice' = price
        /\ position' = UnrealizedEffect(s.position, price)
        /\ savePending' = (savePending \/ SaveDue(s))
        /\ saveArgs' = IF SaveDue(s) THEN Some(CurrentState(s)) ELSE saveArgs

\* The trading view is rendered (neither the loading nor the error view).
TradingView == mounted /\ ~loading /\ Len(allCandles) > 0

\* History: the last command that left the state as it was, with its outcome
\* (the alert shown, a silent return, a disabled button); "ok" after a command
\* that took effect.
Did(op, result) ==
    last' = IF result = "ok" /\ op \notin {"load", "mount"}
            THEN [op |-> "command", result |-> "ok"]
            ELSE [op |-> op, result |-> result]

\* The component mounts on a newly created session.
InitWith(sessions) ==
    /\ \E c \in sessions :
          /\ server = FreshSession(c.capital)
          /\ feed = c.feed
    /\ mounted = TRUE
    /\ session = Null
    /\ loading = TRUE
    /\ allCandles = << >>
    /\ currentCandleIndex = WarmUp
    /\ currentPrice = Zero
    /\ isPlaying = FALSE
    /\ selectedTimeframe = "15min"
    /\ position = FlatPosition
    /\ trades = << >>
    /\ balance = Zero
    /\ savePending = FALSE
    /\ saveArgs = Null
    /\ last = [op |-> "mount", result |-> "ok"]

Init == InitWith(Sessions)

(***************************************************************************)
(* fetchInitialData                                                        *)
(***************************************************************************)
\* Mutant: the balance always restored from the starting capital.
RestoredFromCapital(rec) ==
    [Cur EXCEPT
        !.session = Some([starting_capital |-> rec.starting_capital]),
        !.balance = parseFloat(rec.starting_capital),
        !.position = [quantity |-> parseFloat(rec.position_quantity).n,
                      averagePrice |-> parseFloat(rec.position_avg_price),
                      unrealizedPnL |-> Zero],
        !.currentCandleIndex = rec.current_candle_index,
        !.selectedTimeframe = rec.timeframe,
        !.trades = IF rec.trades_data # Null
                   THEN JSONParseTrades(rec.trades_data[1]) ELSE << >>]

\* The state restored from the session record.
Restored(rec) ==
    [Cur EXCEPT
        !.session = Some([starting_capital |-> rec.starting_capital]),
        !.balance = IF rec.current_balance # Null
                    THEN parseFloat(rec.current_balance)
                    ELSE parseFloat(rec.starting_capital),
        !.position = [quantity |-> parseFloat(rec.position_quantity).n,
                      averagePrice |-> parseFloat(rec.position_avg_price),
                      unrealizedPnL |-> Zero],
        !.currentCandleIndex = rec.current_candle_index,
        !.selectedTimeframe = rec.timeframe,
        !.trades = IF rec.trades_data # Null
                   THEN JSONParseTrades(rec.trades_data[1]) ELSE << >>]

\* First part of fetchInitialData: the session record is fetched and the state
\* restored from it; loading stays true until the bars have been requested.
FetchSession ==
    /\ mounted /\ loading /\ session = Null
    /\ \E sessionOk \in BOOLEAN :
          IF ~sessionOk
          THEN /\ Commit([Cur EXCEPT !.loading = FALSE])
               /\ Did("load", "sessionError")
          ELSE /\ Commit(Restored(server))
               /\ Did("load", "session")
    /\ UNCHANGED <<server, feed>>

\* Second part: the bars are requested; loading ends whatever the outcome.
FetchHistoricalData ==
    /\ mounted /\ loading /\ session # Null
    /\ \E dataOk \in BOOLEAN :
          IF ~dataOk \/ Len(feed) = 0
          THEN /\ Commit([Cur EXCEPT !.loading = FALSE])
               /\ Did("load", "dataError")
          ELSE /\ Commit([Cur EXCEPT !.loading = FALSE, !.allCandles = feed])
               /\ Did("load", "ok")
    /\ UNCHANGED <<server, feed>>

FetchInitialData == FetchSession \/ FetchHistoricalData

(***************************************************************************)
(* Replay controls                                                         *)
(***************************************************************************)
\* The functional updater of the interval callback.
TickUpdater(prev, n) == IF prev < n - 1 THEN prev + 1 ELSE prev

\* One firing of the playback interval (armed while playing before the last bar).
PlaybackTick ==
    /\ TradingView
    /\ isPlaying /\ currentCandleIndex < Len(allCandles) - 1
    /\ Commit([Cur EXCEPT !.currentCandleIndex =
                              TickUpdater(currentCandleIndex, Len(allCandles))])
    /\ Did("tick", "ok")
    /\ UNCHANGED <<server, feed>>

HandlePlay ==
    /\ TradingView
    /\ Commit([Cur EXCEPT !.isPlaying = ~isPlaying])
    /\ Did("play", "ok")
    /\ UNCHANGED <<server, feed>>

\* disabled= of the step buttons.
StepForwardDisabled(idx, n) == idx >= n - 1

\* Mutant: the button disabled only at the first bar.
StepBackDisabledAtZero(idx) == idx <= 0
StepBackDisabled(idx) == idx <= WarmUp

\* The guards of the step handlers.
CanStepForward(idx, n) == idx < n - 1
CanStepBack(idx) == idx > 0

\* Mutant: both guards of the step forward off by one.
HandleStepForwardOffByOne ==
    /\ TradingView
    /\ IF currentCandleIndex < Len(allCandles)
       THEN /\ Commit([Cur EXCEPT !.currentCandleIndex = currentCandleIndex + 1])
            /\ Did("stepForward", "ok")
       ELSE /\ Commit(Cur)
            /\ Did("stepForward", "noop")
    /\ UNCHANGED <<server, feed>>

HandleStepForward ==
    /\ TradingView
    /\ IF ~StepForwardDisabled(currentCandleIndex, Len(allCandles))
          /\ CanStepForward(currentCandleIndex, Len(allCandles))
       THEN /\ Commit([Cur EXCEPT !.currentCandleIndex = currentCandleIndex + 1])
            /\ Did("stepForward", "ok")
       ELSE /\ Commit(Cur)
            /\ Did("stepForward", "noop")
    /\ UNCHANGED <<server, feed>>

HandleStepBack ==
    /\ TradingView
    /\ IF ~StepBackDisabled(currentCandleIndex) /\ CanStepBack(currentCandleIndex)
       THEN /\ Commit([Cur EXCEPT !.currentCandleIndex = currentCandleIndex - 1])
            /\ Did("stepBack", "ok")
       ELSE /\ Commit(Cur)
            /\ Did("stepBack", "noop")
    /\ UNCHANGED <<server, feed>>

HandleTimeframeChange ==
    /\ TradingView
    /\ \E tf \in Timeframes :
          Commit([Cur EXCEPT !.selectedTimeframe = tf])
    /\ Did("timeframe", "ok")
    /\ UNCHANGED <<server, feed>>

(***************************************************************************)
(* executeTrade                                                            *)
(***************************************************************************)
Cost(price, qty) == Mul(price, Num(qty))

\* Mutant: the comparison of the balance check reversed.
InsufficientBalanceReversed(cost, bal) == Gt(bal, cost)
InsufficientBalance(cost, bal) == Gt(cost, bal)

\* Mutant: the comparison of the position check reversed.
InsufficientPositionReversed(qty, pos) == qty < pos.quantity
InsufficientPosition(qty, pos) == qty > pos.quantity

\* Mutant: the plain mean of the old average and the new price.
BuyPositionPlainMean(pos, price, qty) ==
    [quantity |-> pos.quantity + qty,
     averagePrice |-> IF pos.quantity > 0
                      THEN Div(Add(pos.averagePrice, price), Num(2))
                      ELSE price,
     unrealizedPnL |-> Zero]

BuyPosition(pos, price, qty) ==
    LET newQuantity == pos.quantity + qty
    IN  [quantity |-> newQuantity,
         averagePrice |->
            IF newQuantity > 0
            THEN Div(Add(Mul(pos.averagePrice, Num(pos.quantity)), Mul(price, Num(qty))),
                     Num(newQuantity))
            ELSE Zero,
         unrealizedPnL |-> Zero]

BuyBalance(bal, cost) == Sub(bal, cost)

Profit(pos, price, qty) == Mul(Sub(price, pos.averagePrice), Num(qty))

\* Mutant: a closing SELL keeps the average price.
SellPositionKeepsAverage(pos, qty) ==
    [quantity |-> pos.quantity - qty,
     averagePrice |-> pos.averagePrice,
     unrealizedPnL |-> Zero]

SellPosition(pos, qty) ==
    LET newQuantity == pos.quantity - qty
    IN  [quantity |-> newQuantity,
         averagePrice |-> IF newQuantity > 0 THEN pos.averagePrice ELSE Zero,
         unrealizedPnL |-> Zero]

SellBalance(bal, cost, profit) == Add(Add(bal, cost), profit)

\* Date.now() when a trade command runs: the reading at the previous trade of
\* the history plus the milliseconds elapsed since (0 before the first trade).
DateNow(ts, elapsed) == (IF ts = << >> THEN 0 ELSE ts[1].id) + elapsed

\* The id is Date.now().toString(), kept as the number it prints.
NewTrade(id, type, price, qty, profit) ==
    [id |-> id, type |-> type, price |-> price, quantity |-> qty, profit |-> profit]

\* tradeQuantity is the value of the quantity field when the button is clicked
\* (onChange: setTradeQuantity(Number(e.target.value))), read by no other handler;
\* elapsed is the time since the previous trade, in milliseconds.
ExecuteTrade(type, tradeQuantity, elapsed) ==
    /\ TradingView
    /\ LET cost == Cost(currentPrice, tradeQuantity)
           id == DateNow(trades, elapsed) IN
       IF currentPrice = Zero \/ tradeQuantity <= 0
       THEN /\ Commit(Cur)
            /\ Did(type, "ignored")
       ELSE IF type = "BUY" /\ InsufficientBalance(cost, balance)
       THEN /\ Commit(Cur)
            /\ Did(type, "InsufficientFunds")
       ELSE IF type = "SELL" /\ InsufficientPosition(tradeQuantity, position)
       THEN /\ Commit(Cur)
            /\ Did(type, "InsufficientPosition")
       ELSE /\ Len(trades) < MaxTrades
            /\ IF type = "BUY"
               THEN Commit([Cur EXCEPT
                       !.trades = <<NewTrade(id, type, currentPrice, tradeQuantity, Null)>>
                                      \o trades,
                       !.position = BuyPosition(position, currentPrice, tradeQuantity),
                       !.balance = BuyBalance(balance, cost)])
               ELSE LET profit == Profit(position, currentPrice, tradeQuantity) IN
                    Commit([Cur EXCEPT
                       !.trades = <<NewTrade(id, type, currentPrice, tradeQuantity, Some(profit))>>
                                      \o trades,
                       !.position = SellPosition(position, tradeQuantity),
                       !.balance = SellBalance(balance, cost, profit)])
            /\ Did(type, "ok")
    /\ UNCHANGED <<server, feed>>

(***************************************************************************)
(* Two events handled from the same render                                 *)
(***************************************************************************)
\* The updater of handleStepForward.
StepUpdater(prev) == prev + 1

\* The interval callback runs and, before the component re-renders, the step
\* forward button of the same render is clicked: the handler's guard reads the
\* rendered cursor, and the two queued updaters are applied in order.
TickThenStepForward ==
    /\ TradingView
    /\ isPlaying /\ currentCandleIndex < Len(allCandles) - 1
    /\ ~StepForwardDisabled(currentCandleIndex, Len(allCandles))
    /\ CanStepForward(currentCandleIndex, Len(allCandles))
    /\ Commit([Cur EXCEPT !.currentCandleIndex =
                  StepUpdater(TickUpdater(currentCandleIndex, Len(allCandles)))])
    /\ Did("tickThenStepForward", "ok")
    /\ UNCHANGED <<server, feed>>

\* The pause button is clicked while the interval is armed and, before the
\* component re-renders and the cleanup of the playback effect clears the
\* interval, the interval callback runs: its updater does not read isPlaying.
PauseThenTick ==
    /\ TradingView
    /\ isPlaying /\ currentCandleIndex < Len(allCandles) - 1
    /\ Commit([Cur EXCEPT !.isPlaying = ~isPlaying,
                          !.currentCandleIndex =
                              TickUpdater(currentCandleIndex, Len(allCandles))])
    /\ Did("pauseThenTick", "ok")
    /\ UNCHANGED <<server, feed>>

\* What one executeTrade call of a render passes to setPosition, applied to the
\* queued state prev: BUY passes an object computed from the rendered position,
\* SELL an updater that takes the quantity from the rendered position and the
\* average price from prev.
PositionUpdate(type, pos, price, qty, prev) ==
    IF type = "BUY"
    THEN BuyPosition(pos, price, qty)
    ELSE [quantity |-> pos.quantity - qty,
          averagePrice |-> IF pos.quantity - qty > 0 THEN prev.averagePrice ELSE Zero,
          unrealizedPnL |-> Zero]

\* The updater one executeTrade call passes to setBalance.
BalanceUpdate(type, prev, cost, profit) ==
    IF type = "BUY" THEN BuyBalance(prev, cost) ELSE SellBalance(prev, cost, profit)

\* Two executeTrade calls run from the same render: both read currentPrice,
\* tradeQuantity, position and balance of that render, and their state updates
\* are queued and applied in order.
ExecuteTradeTwice(type1, type2, tradeQuantity) ==
    /\ TradingView
    /\ currentPrice # Zero /\ tradeQuantity > 0
    /\ LET cost == Cost(currentPrice, tradeQuantity)
           profit == Profit(position, currentPrice, tradeQuantity)
           Passes(type) ==
               IF type = "BUY" THEN ~InsufficientBalance(cost, balance)
               ELSE ~InsufficientPosition(tradeQuantity, position)
           Recorded(type, id) ==
               NewTrade(id, type, currentPrice, tradeQuantity,
                        IF type = "BUY" THEN Null ELSE Some(profit))
           id1 == DateNow(trades, 1)
           id2 == id1 + 1
           position1 == PositionUpdate(type1, position, currentPrice, tradeQuantity,
                                       position)
           balance1 == BalanceUpdate(type1, balance, cost, profit)
       IN  /\ Passes(type1) /\ Passes(type2)
           /\ Len(trades) + 2 <= MaxTrades
           /\ Commit([Cur EXCEPT
                  !.trades = <<Recorded(type2, id2), Recorded(type1, id1)>> \o trades,
                  !.position = PositionUpdate(type2, position, currentPrice,
                                              tradeQuantity, position1),
                  !.balance = BalanceUpdate(type2, balance1, cost, profit)])
    /\ Did("executeTradeTwice", "ok")
    /\ UNCHANGED <<server, feed>>

(***************************************************************************)
(* Persistence                                                             *)
(***************************************************************************)
\* Mutant: a failed request discards the trade history held in memory.
SaveSessionStateRollback ==
    /\ savePending
    /\ \E delivered \in BOOLEAN :
          /\ server' = IF delivered
                       THEN StoreState(server, JSONStringify(saveArgs[1]))
                       ELSE server
          /\ trades' = IF delivered THEN trades ELSE << >>
          /\ Did("save", IF delivered THEN "ok" ELSE "failed")
    /\ savePending' = FALSE
    /\ saveArgs' = Null
    /\ UNCHANGED <<feed, mounted, session, loading, allCandles, currentCandleIndex,
                   currentPrice, isPlaying, selectedTimeframe, position, balance>>

\* The debounce timer fires: saveSessionState is invoked with the arguments of
\* the last debouncedSave call.
SaveSessionState ==
    /\ savePending
    /\ \E delivered \in BOOLEAN :
          /\ server' = IF delivered
                       THEN StoreState(server, JSONStringify(saveArgs[1]))
                       ELSE server
          /\ Did("save", IF delivered THEN "ok" ELSE "failed")
    /\ savePending' = FALSE
    /\ saveArgs' = Null
    /\ UNCHANGED <<feed, mounted, session, loading, allCandles, currentCandleIndex,
                   currentPrice, isPlaying, selectedTimeframe, position, trades, balance>>

\* The page is loaded again: the component mounts anew, timers are gone.
Reload ==
    /\ ~loading \/ ~mounted
    /\ mounted' = TRUE
    /\ session' = Mounted.session
    /\ loading' = Mounted.loading
    /\ allCandles' = Mounted.allCandles
    /\ currentCandleIndex' = Mounted.currentCandleIndex
    /\ isPlaying' = Mounted.isPlaying
    /\ selectedTimeframe' = Mounted.selectedTimeframe
    /\ position' = Mounted.position
    /\ trades' = Mounted.trades
    /\ balance' = Mounted.balance
    /\ currentPrice' = Zero
    /\ savePending' = FALSE
    /\ saveArgs' = Null
    /\ Did("mount", "ok")
    /\ UNCHANGED <<server, feed>>

\* The back button of the trading or error view: navigate to the dashboard.
\* The component unmounts: the cleanup of the playback effect clears the
\* interval and no handler runs any more; the debounced save has no cleanup,
\* so an armed timer stays armed with the arguments of the last call.  The
\* state variables keep the values of the last render.
Unmount ==
    /\ mounted /\ ~loading
    /\ mounted' = FALSE
    /\ Did("unmount", "ok")
    /\ UNCHANGED <<server, feed, session, loading, allCandles, currentCandleIndex,
                   currentPrice, isPlaying, selectedTimeframe, position, trades,
                   balance, savePending, saveArgs>>

Next ==
    \/ FetchInitialData
    \/ PlaybackTick
    \/ HandlePlay
    \/ HandleStepForward
    \/ HandleStepBack
    \/ HandleTimeframeChange
    \/ \E q \in Quantities : ExecuteTrade("BUY", q, 1)
    \/ \E q \in Quantities : ExecuteTrade("SELL", q, 1)

Spec == Init /\ [][Next]_vars

\* Sessions with saving and reloading.
PersistSessions ==
    { [feed |-> FeedCrash, capital |-> 500],
      [feed |-> FeedEmpty, capital |-> 500] }

InitPersist == InitWith(PersistSessions)

NextPersist ==
    \/ Next
    \/ SaveSessionState
    \/ Reload
    \/ Unmount

SpecPersist == InitPersist /\ [][NextPersist]_vars

\* Sessions in which two events may be handled from the same render and two
\* trade commands may run at the same clock reading.
RaceSessions ==
    { [feed |-> FeedCrash, capital |-> 500],
      [feed |-> FeedFlat,  capital |-> 500] }

InitRace == InitWith(RaceSessions)

NextRace ==
    \/ Next
    \/ \E q \in Quantities : ExecuteTrade("BUY", q, 0)
    \/ \E q \in Quantities : ExecuteTrade("SELL", q, 0)
    \/ TickThenStepForward
    \/ PauseThenTick
    \/ \E type1 \in {"BUY", "SELL"}, type2 \in {"BUY", "SELL"}, q \in Quantities :
          ExecuteTradeTwice(type1, type2, q)

SpecRace == InitRace /\ [][NextRace]_vars

\* A session followed while the page stays open; an armed debounce timer
\* eventually fires.
LiveSessions == { [feed |-> FeedCrash, capital |-> 500] }

InitLive == InitWith(LiveSessions)

NextLive ==
    \/ Next
    \/ SaveSessionState

SpecLive == InitLive /\ [][NextLive]_vars /\ WF_vars(SaveSessionState)


(***************************************************************************)
(* Derived values                                                          *)
(***************************************************************************)
\* const totalPortfolioValue = balance + position.quantity * currentPrice
PortfolioValue(bal, pos, price) == Add(bal, Mul(Num(pos.quantity), price))
TotalPortfolioValue == PortfolioValue(balance, position, currentPrice)
TotalPortfolioValueNext == PortfolioValue(balance', position', currentPrice')

\* The close of the bar at index idx (0-based) of the loaded sequence.
CloseAt(idx) == allCandles[idx + 1]

RECURSIVE SumCost(_)
SumCost(ts) ==
    IF ts = << >> THEN Zero
    ELSE Add(Cost(Head(ts).price, Head(ts).quantity), SumCost(Tail(ts)))

RECURSIVE SumQuantity(_)
SumQuantity(ts) == IF ts = << >> THEN 0 ELSE Head(ts).quantity + SumQuantity(Tail(ts))

AllBuys(ts) == \A i \in 1..Len(ts) : ts[i].type = "BUY"

\* This step appended an accepted trade of the given side.
Accepted(type) == Len(trades') = Len(trades) + 1 /\ trades'[1].type = type

\* This step moved the cursor and executed no trade.
CursorMoved ==
    /\ currentCandleIndex' # currentCandleIndex
    /\ trades' = trades
    /\ TradingView /\ TradingView'

StartedWith(capital) ==
    session = Some([starting_capital |-> NumberToText(Num(capital))])

IsTrade(t, type, price, qty) ==
    t.type = type /\ t.price = Num(price) /\ t.quantity = qty

(***************************************************************************)
(* Claims                                                                  *)
(***************************************************************************)

\* C1: every accepted SELL adds exactly price x quantity to the cash balance
\* and records the profit (price - averagePrice before the sell) x quantity.
C1_SellSettlement ==
    [][Accepted("SELL") =>
        /\ balance' = Add(balance, Cost(currentPrice, trades'[1].quantity))
        /\ trades'[1].profit =
              Some(Mul(Sub(currentPrice, position.averagePrice), Num(trades'[1].quantity)))
      ]_vars

\* C2: the cash balance is never negative.
C2_BalanceNonNegative == Le(Zero, balance)

\* C3: once a session has loaded, WarmUp <= currentCandleIndex <= len(bars) - 1.
C3_CursorInRange ==
    TradingView =>
        WarmUp <= currentCandleIndex /\ currentCandleIndex <= Len(allCandles) - 1

\* C4: from balance 10,000 and a flat position, BUY 10 @ 100, BUY 10 @ 110,
\* SELL 5 @ 120 give balance 9,000 and position {10, 100}; position {20, 105}
\* and balance 7,900; then profit 75, balance 8,500 and position {15, 105}.
C4_Scenario ==
    StartedWith(10000) =>
        /\ (Len(trades) = 1 /\ IsTrade(trades[1], "BUY", 100, 10)) =>
              /\ balance = Num(9000)
              /\ position.quantity = 10 /\ position.averagePrice = Num(100)
        /\ (Len(trades) = 2 /\ IsTrade(trades[2], "BUY", 100, 10)
                            /\ IsTrade(trades[1], "BUY", 110, 10)) =>
              /\ balance = Num(7900)
              /\ position.quantity = 20 /\ position.averagePrice = Num(105)
        /\ (Len(trades) = 3 /\ IsTrade(trades[3], "BUY", 100, 10)
                            /\ IsTrade(trades[2], "BUY", 110, 10)
                            /\ IsTrade(trades[1], "SELL", 120, 5)) =>
              /\ trades[1].profit = Some(Num(75))
              /\ balance = Num(8500)
              /\ position.quantity = 15 /\ position.averagePrice = Num(105)

\* C5: a BUY whose cost exceeds the cash balance is rejected and the rejection
\* leaves balance, position and trade history unchanged; no accepted BUY costs
\* more than the balance before it.
C5_BuyRejected ==
    [][/\ (last'.op = "BUY" /\ last'.result = "InsufficientFunds") =>
             (balance' = balance /\ position' = position /\ trades' = trades)
       /\ Accepted("BUY") =>
             Le(Cost(trades'[1].price, trades'[1].quantity), balance)
      ]_vars

C5_Witness ==
    /\ last = [op |-> "BUY", result |-> "InsufficientFunds"]
    /\ balance = Num(500) /\ currentPrice = Num(100)
    /\ position.quantity = 0 /\ trades = << >>

\* C6: a SELL of more than the held quantity is rejected with no state change;
\* every accepted SELL had quantity <= position.quantity before it; the held
\* quantity is never negative.
C6_NoShort ==
    /\ [](position.quantity >= 0)
    /\ [][/\ (last'.op = "SELL" /\ last'.result = "InsufficientPosition") =>
                (balance' = balance /\ position' = position /\ trades' = trades)
          /\ Accepted("SELL") => trades'[1].quantity <= position.quantity
         ]_vars

C6_Witness ==
    /\ last = [op |-> "SELL", result |-> "InsufficientPosition"]
    /\ position.quantity = 5
    /\ Len(trades) >= 2 /\ trades[1].type = "SELL"

\* C7: after accepted BUYs only, from a flat position, averagePrice x total
\* quantity equals the sum of price x quantity over those BUYs.
C7_WeightedMean ==
    (TradingView /\ AllBuys(trades)) =>
        /\ position.quantity = SumQuantity(trades)
        /\ Mul(position.averagePrice, Num(position.quantity)) = SumCost(trades)

C7_Witness ==
    /\ Len(trades) = 3 /\ AllBuys(trades)
    /\ trades[1].price # trades[2].price /\ trades[2].price # trades[3].price
    /\ trades[1].quantity # trades[2].quantity
    /\ position.averagePrice.d # 1

\* C8 as stated: total portfolio value is unchanged by a cursor move in which
\* no trade is executed.
C8_ValueUnchanged ==
    [][CursorMoved => TotalPortfolioValueNext = TotalPortfolioValue]_vars

\* C8 amended: a cursor move in which no trade is executed leaves the cash
\* balance and the position's quantity and average price unchanged, and changes
\* total portfolio value by exactly quantity x (new close - old close).
C8_MarkToMarket ==
    [][(CursorMoved /\ currentCandleIndex' < Len(allCandles)) =>
        /\ balance' = balance
        /\ position'.quantity = position.quantity
        /\ position'.averagePrice = position.averagePrice
        /\ Sub(TotalPortfolioValueNext, TotalPortfolioValue) =
              Mul(Num(position.quantity),
                  Sub(CloseAt(currentCandleIndex'), CloseAt(currentCandleIndex)))
      ]_vars

C8_Witness ==
    /\ TradingView
    /\ Len(trades) = 1 /\ trades[1].type = "BUY"
    /\ position.quantity > 0
    /\ currentPrice # trades[1].price
    /\ TotalPortfolioValue # parseFloat(session[1].starting_capital)

C10_StepBackFloor ==
    [][/\ (TradingView /\ TradingView' /\ currentCandleIndex >= WarmUp) =>
             currentCandleIndex' >= WarmUp
       /\ (last'.op = "stepBack" /\ last'.result = "noop") =>
             currentCandleIndex' = currentCandleIndex
      ]_vars

C10_Witness ==
    /\ last = [op |-> "stepBack", result |-> "noop"]
    /\ currentCandleIndex = WarmUp
    /\ Len(allCandles) = 50

\* C11: the playing flag goes from unset to set only while the cursor is before
\* the last bar; a play command at the last bar does not enter Playing.
C11_PlayAtEnd ==
    [][(TradingView /\ ~isPlaying /\ isPlaying') =>
          currentCandleIndex < Len(allCandles) - 1]_vars

\* C12: each playback tick advances the cursor by exactly 1, and a tick that
\* brings the cursor to the last bar leaves the playing flag unset.
C12_TickToEnd ==
    [][PlaybackTick =>
          /\ currentCandleIndex' = currentCandleIndex + 1
          /\ (currentCandleIndex' = Len(allCandles') - 1 => ~isPlaying')
      ]_vars

\* C13: while the playing flag is set, a step forward or step back command
\* leaves the cursor unchanged.
C13_StepOnlyPaused ==
    [][(isPlaying /\ (HandleStepForward \/ HandleStepBack)) =>
          currentCandleIndex' = currentCandleIndex]_vars

\* C14: a step forward at the last bar leaves the cursor and all other session
\* state unchanged and is a silent no-op.
C14_StepForwardAtEnd ==
    [][(HandleStepForward /\ currentCandleIndex = Len(allCandles) - 1) =>
          /\ UNCHANGED <<server, mounted, session, loading, allCandles,
                         currentCandleIndex, currentPrice, isPlaying,
                         selectedTimeframe, position, trades, balance,
                         savePending, saveArgs>>
          /\ last' = [op |-> "stepForward", result |-> "noop"]
      ]_vars

C14_Witness ==
    /\ last = [op |-> "stepForward", result |-> "noop"]
    /\ TradingView
    /\ currentCandleIndex = Len(allCandles) - 1
    /\ Len(trades) > 0 /\ position.quantity > 0

\* C15: a trade command with quantity <= 0 is reported as InvalidQuantity and
\* leaves balance, position and trade history unchanged.
C15_InvalidQuantity ==
    [][(\E type \in {"BUY", "SELL"}, q \in Quantities :
            q <= 0 /\ ExecuteTrade(type, q, 1)) =>
          /\ last'.result = "InvalidQuantity"
          /\ balance' = balance /\ position' = position /\ trades' = trades
      ]_vars

\* C16: a flat position has averagePrice 0 in every state, also after a reload
\* from the stored record; a SELL that closes the position resets averagePrice
\* to 0 and a SELL that leaves quantity > 0 leaves averagePrice unchanged.
C16_FlatAverage ==
    /\ [](position.quantity = 0 => position.averagePrice = Zero)
    /\ [][Accepted("SELL") =>
             /\ position'.quantity = position.quantity - trades'[1].quantity
             /\ (position'.quantity = 0 => position'.averagePrice = Zero)
             /\ (position'.quantity > 0 =>
                    position'.averagePrice = position.averagePrice)
         ]_vars

\* BUY 10, a partial SELL 5, and the SELL 5 that closes the position.
C16_Witness ==
    /\ Len(trades) = 3
    /\ trades[3].type = "BUY" /\ trades[2].type = "SELL" /\ trades[1].type = "SELL"
    /\ trades[3].price # Zero
    /\ position.quantity = 0 /\ position.averagePrice = Zero

\* C17: the price of every trade record is the close of the bar at the cursor
\* when the trade is executed.
C17_TradePrice ==
    [][(Accepted("BUY") \/ Accepted("SELL")) =>
          /\ currentCandleIndex < Len(allCandles)
          /\ trades'[1].price = CloseAt(currentCandleIndex)
      ]_vars

\* C18: no session is active on a bar sequence shorter than the warm-up offset
\* or with the cursor at or beyond the end of the sequence.
C18_InsufficientHistory ==
    TradingView =>
        /\ Len(allCandles) >= WarmUp
        /\ currentCandleIndex < Len(allCandles)

\* C19: on an empty historical-data answer the trading view is never rendered,
\* no trade or cursor command takes effect, no save request is sent and the
\* stored record stays as it was created.
C19_NoHistoricalData ==
    /\ [](Len(feed) = 0 => ~TradingView)
    /\ [][Len(feed) = 0 =>
             /\ trades' = trades /\ currentCandleIndex' = currentCandleIndex
             /\ ~SaveSessionState
         ]_vars
    /\ [](Len(feed) = 0 =>
             server.current_balance = Null /\ server.trades_data = Null)

\* C20: while the debounce timer is armed the pending call holds the snapshot
\* of the state after the last mutation; the stored record changes only when
\* the timer fires, to that snapshot, and the firing consumes the pending call,
\* so the mutations since the previous firing produce one request.
C20_Coalesced ==
    /\ [](savePending => saveArgs = Some(CurrentState(Cur)))
    /\ [](~savePending => saveArgs = Null)
    /\ [][server' # server =>
             /\ savePending /\ ~savePending'
             /\ server' = StoreState(server, JSONStringify(CurrentState(Cur)))
         ]_vars
    /\ [][SaveSessionState => (savePending /\ ~savePending' /\ saveArgs' = Null)]_vars

\* One delivered request carrying a cursor move and two trades.
C20_Witness ==
    /\ TradingView
    /\ ~savePending /\ saveArgs = Null
    /\ Len(trades) >= 2 /\ currentCandleIndex > WarmUp
    /\ server.trades_data = Some(TradesToJSON(trades))
    /\ server.current_candle_index = currentCandleIndex
    /\ server.current_balance = NumberToText(balance)

\* C23: a change of the selected timeframe resets the cursor to the warm-up
\* offset and leaves cash balance, position and trade history unchanged.
C23_TimeframeChange ==
    [][(HandleTimeframeChange /\ selectedTimeframe' # selectedTimeframe) =>
          /\ currentCandleIndex' = WarmUp
          /\ balance' = balance /\ trades' = trades
          /\ position'.quantity = position.quantity
          /\ position'.averagePrice = position.averagePrice
      ]_vars

RECURSIVE SumProfit(_)
SumProfit(ts) ==
    IF ts = << >> THEN Zero
    ELSE Add(IF Head(ts).type = "SELL" THEN Head(ts).profit[1] ELSE Zero,
             SumProfit(Tail(ts)))

\* C27: cash balance + quantity x averagePrice - starting capital equals the
\* sum of the profit fields of the SELL trades in the history.
C27_Conservation ==
    TradingView =>
        Sub(Add(balance, Mul(Num(position.quantity), position.averagePrice)),
            parseFloat(session[1].starting_capital))
          = SumProfit(trades)

\* C30: no save is scheduled while the session is loading or without a loaded
\* session; the save scheduled when loading ends carries the state restored
\* from the stored record, and every pending save the current state.
C30_NoSaveBeforeLoad ==
    /\ []((loading \/ session = Null) => (~savePending /\ saveArgs = Null))
    /\ [](savePending => saveArgs # Some(CurrentState(Mounted)))
    /\ [][(loading /\ ~loading' /\ savePending') =>
             saveArgs' = Some(CurrentState(Restored(server)))
         ]_vars

\* The save scheduled at the end of the load of a resumed session.
C30_Witness ==
    /\ last = [op |-> "load", result |-> "ok"]
    /\ savePending
    /\ Len(trades) > 0 /\ saveArgs[1].trades_data = trades
    /\ saveArgs[1].current_balance = parseFloat(server.current_balance)

\* C25: a failed save request leaves cursor, balance, position, trades and the
\* rest of the in-memory state as they were; after it commands still take
\* effect, and a command that changes the saved state schedules a new save.
C25_SaveFailure ==
    /\ [][(last'.op = "save" /\ last'.result = "failed") =>
             UNCHANGED <<server, mounted, session, loading, allCandles,
                         currentCandleIndex, currentPrice, isPlaying,
                         selectedTimeframe, position, trades, balance>>
         ]_vars
    /\ []((last.op = "save" /\ last.result = "failed" /\ TradingView) =>
             ENABLED (HandleStepForward \/ HandleStepBack \/ HandlePlay
                        \/ ExecuteTrade("BUY", 5, 1)))
    /\ [][(last.op = "save" /\ last.result = "failed" /\ TradingView'
             /\ (currentCandleIndex' # currentCandleIndex \/ trades' # trades)) =>
             (savePending' /\ saveArgs' = Some(CurrentState(Cur)'))
         ]_vars

\* A failed request with a trade in memory and nothing stored.
C25_Witness ==
    /\ last = [op |-> "save", result |-> "failed"]
    /\ TradingView /\ ~savePending
    /\ Len(trades) >= 1 /\ position.quantity > 0
    /\ server.trades_data = Null

C22_EndSession ==
    /\ [][(mounted /\ ~mounted') => ~savePending']_vars
    /\ [][~mounted => ~PlaybackTick]_vars

\* C24: no two records of the trade history share an id.
C24_UniqueIds ==
    \A i \in 1..Len(trades), j \in 1..Len(trades) :
        i # j => trades[i].id # trades[j].id

\* C26: a pause command leaves the playing flag unset and the cursor where it
\* is, whether or not the interval callback runs before the re-render; while
\* the flag is unset no playback tick fires.
C26_PauseCancelsTick ==
    /\ [][(isPlaying /\ (HandlePlay \/ PauseThenTick)) =>
             (~isPlaying' /\ currentCandleIndex' = currentCandleIndex)]_vars
    /\ [][~isPlaying => ~PlaybackTick]_vars

RECURSIVE SumSigned(_)
SumSigned(ts) ==
    IF ts = << >> THEN 0
    ELSE (IF Head(ts).type = "BUY" THEN Head(ts).quantity ELSE 0 - Head(ts).quantity)
            + SumSigned(Tail(ts))

\* C28: the held quantity equals the BUY quantities minus the SELL quantities
\* of the trade history.
C28_QuantityMatchesHistory ==
    TradingView => position.quantity = SumSigned(trades)

\* C29: no step takes the cursor from len(bars) - 2 past the last bar.
C29_TickStepInRange ==
    [][(TradingView /\ TradingView' /\ currentCandleIndex = Len(allCandles) - 2) =>
          currentCandleIndex' <= Len(allCandles) - 1]_vars

====
